---------------------------- MODULE Spec2Model ----------------------------
(***************************************************************************)
(* A model of libcmdapp (src/src/cmdapp.c): option registration with the   *)
(* behavior mini-language, the argument scan, the quantifier verification  *)
(* and the callback dispatch of ca_parse.                                  *)
(*                                                                         *)
(* C strings are sequences of one-character strings; reading the index     *)
(* just past the end yields the terminator NUL, as in C.  Pointers to      *)
(* options are indices into `options` (0 is the NULL pointer).             *)
(***************************************************************************)
EXTENDS Integers, Sequences, FiniteSets, TLC

VARIABLES
    argv,                \* app.argv[1..argc-1]: the tokens after the program name
    options,             \* app.options: the registered struct ca_opt, in order
    slot,                \* the caller's `const char*` variables given as `result`
    use_end_of_options,  \* app.use_end_of_options
    opt_callback,        \* app.opt_callback is non-NULL
    arg_callback,        \* app.arg_callback is non-NULL
    pc,                  \* where the client program is: setup, inside ca_parse, done
    i,                   \* ca_construct_results: index of the token to read next
    only_args_now,       \* ca_construct_results: `--` has been consumed
    last_opt,            \* ca_construct_results: option awaiting its argument
    results,             \* app.results[0..results_length-1]
    options_count,       \* app.options_count
    ret,                 \* value returned by the last ca_parse (NoRet before)
    err,                 \* kind of the message ca_print_error was given
    err_at,              \* ca_verify_results: index of the result it failed on
    calls,               \* callbacks and renderers invoked by the dispatch loop
    last_reg,            \* arguments and return value of the last ca_opt call
    runs,                \* history: number of ca_parse calls made so far
    first_run,           \* history: what the first ca_parse call left behind
    dyn                  \* a dynamic array of dynarr.h: element size, length,
                         \* capacity and bytes allocated

vars == <<argv, options, slot, use_end_of_options, opt_callback, arg_callback,
          pc, i, only_args_now, last_opt, results, options_count, ret, err,
          err_at, calls, last_reg, runs, first_run, dyn>>

parseVars == <<i, only_args_now, last_opt, results, options_count, ret, err,
               err_at, calls, runs, first_run, dyn>>

---------------------------------------------------------------------------
(* Characters and C strings *)

NUL == "NUL"
\* the NULL `const char*`: no C string, whose elements are single characters
NULL == <<"NULL">>
\* the NULL `const char**`: no caller variable
NULLP == "NULLP"
\* ret before ca_parse has returned
NoRet == -1

LowerSeq == <<"a","b","c","d","e","f","g","h","i","j","k","l","m",
              "n","o","p","q","r","s","t","u","v","w","x","y","z">>
UpperSeq == <<"A","B","C","D","E","F","G","H","I","J","K","L","M",
              "N","O","P","Q","R","S","T","U","V","W","X","Y","Z">>
DigitSeq == <<"0","1","2","3","4","5","6","7","8","9">>

Range(s) == {s[k] : k \in DOMAIN s}
IndexIn(s, c) == CHOOSE k \in DOMAIN s : s[k] = c

islower(c) == c \in Range(LowerSeq)
isupper(c) == c \in Range(UpperSeq)
isdigit(c) == c \in Range(DigitSeq)
isalnum(c) == islower(c) \/ isupper(c) \/ isdigit(c)

\* s[k] of a C string, k counted from 0; s[strlen(s)] is the terminator
At(s, k) == IF k < Len(s) THEN s[k + 1] ELSE NUL

\* s + k: the string that starts k characters into s
Tail_(s, k) == SubSeq(s, k + 1, Len(s))

\* strchr(set, c) != NULL: the terminator is always found
StrChr(set, c) == c \in set \/ c = NUL

ca_is_short_flag(flag) == isalnum(flag)

---------------------------------------------------------------------------
(* dynarr.h: the growable arrays that hold app.options and app.results *)

\* sizes in bytes on the 64-bit build: a pointer, struct ca_parse_result
\* (two pointers) and struct ca_opt
SizeofPointer == 8
SizeofResult == 16
SizeofOpt == 72

\* ca_dynamic_new(T, len, cap), T being `elem` bytes wide
ca_dynamic_new(elem) ==
    [elem |-> elem, len |-> 0, cap |-> 16, bytes |-> elem * 16, state |-> "ok"]

\* the element at index `len` lies inside the allocation
InsideAllocation(d) == (d.len + 1) * d.elem <= d.bytes

\* The arrays ca_dynamic_push(&arr, len, cap, newelem) can leave.  The new
\* size is computed from sizeof(*(&arr)), the size of the pointer `arr`, not
\* of an element.  A store beyond the allocation either corrupts the heap
\* and goes unnoticed or stops the process.
ca_dynamic_push_call(d) ==
    LET grown == IF d.len + 1 >= d.cap
                 THEN [d EXCEPT !.cap = d.cap * 2,
                                !.bytes = SizeofPointer * (d.cap * 2)]
                 ELSE d
    IN  IF InsideAllocation(grown)
        THEN {[grown EXCEPT !.len = @ + 1]}
        ELSE {[grown EXCEPT !.len = @ + 1, !.state = "corrupt"],
              [grown EXCEPT !.state = "crashed"]}


CA_OPT_ARG == "CA_OPT_ARG"
CA_OPT_OPTARG == "CA_OPT_OPTARG"
CA_OPT_MFLAG == "CA_OPT_MFLAG"

CA_OPT_QUANTIFIER_NONE == "NONE"
CA_OPT_QUANTIFIER_ALL == "ALL"
CA_OPT_QUANTIFIER_ANY == "ANY"
CA_OPT_QUANTIFIER_ONLY == "ONLY"

\* refs of an option whose behavior has no quantifier: the field is never
\* assigned and never read
NoRefs == <<>>

\* the option as ca_opt initialises it before the behavior is parsed
NewOpt(short_opt, long_opt, result) ==
    [short_opt |-> short_opt, long_opt |-> long_opt, result |-> result,
     flags |-> {}, quantifier_is_negated |-> FALSE,
     quantifier |-> CA_OPT_QUANTIFIER_NONE, refs |-> NoRefs,
     arg_name |-> NULL, was_passed |-> FALSE]

\* the while loop of lines 122-126: first index whose character is not one
\* of ". ? space tab" (it also stops on the terminator)
RECURSIVE SkipPrefix(_, _)
SkipPrefix(behavior, k) ==
    IF StrChr({".", "?", " ", "\t"}, At(behavior, k))
       /\ ~StrChr({"!", "@", "&"}, At(behavior, k))
    THEN SkipPrefix(behavior, k + 1)
    ELSE k

\* the switch of lines 135-147
QuantifierOf(c) ==
    CASE c = "@" -> CA_OPT_QUANTIFIER_ANY
      [] c = "&" -> CA_OPT_QUANTIFIER_ALL
      [] c = "<" -> CA_OPT_QUANTIFIER_ONLY
      [] OTHER -> CA_OPT_QUANTIFIER_NONE

\* lines 120-159: the quantifier clause, on the option `opt` as the prefix
\* handling left it
ParseQuantifier(opt, behavior) ==
    LET k0 == SkipPrefix(behavior, 0)
        neg == At(behavior, k0) = "!"
        k == IF neg THEN k0 + 1 ELSE k0
        q == QuantifierOf(At(behavior, k))
        refs == Tail_(behavior, k + 1)
    IN  IF q = CA_OPT_QUANTIFIER_NONE
        THEN [ret |-> 1, opt |-> opt]
        ELSE [ret |-> IF \A r \in Range(refs) : ca_is_short_flag(r) THEN 0 ELSE 1,
              opt |-> [opt EXCEPT !.quantifier_is_negated = neg,
                                  !.quantifier = q,
                                  !.refs = refs]]

\* a slip: a `*` right after the `.` prefix also sets the multiflag flag
ca_parse_opt_behavior_dot_star(opt, behavior) ==
    IF At(behavior, 0) = "." /\ At(behavior, 1) = "*" /\ At(behavior, 2) = NUL
    THEN [ret |-> 0, opt |-> [opt EXCEPT !.flags = {CA_OPT_ARG, CA_OPT_MFLAG}]]
    ELSE IF At(behavior, 0) = "*" /\ At(behavior, 1) = NUL
    THEN [ret |-> 0, opt |-> [opt EXCEPT !.flags = {CA_OPT_MFLAG}]]
    ELSE IF At(behavior, 0) = "." /\ At(behavior, 1) = NUL
    THEN [ret |-> 0, opt |-> [opt EXCEPT !.flags = {CA_OPT_ARG}]]
    ELSE [ret |-> 1, opt |-> opt]

\* the mutated option and the return value (0 success, 1 failure)
ca_parse_opt_behavior(opt, behavior) ==
    IF At(behavior, 0) = NUL
    THEN [ret |-> 0, opt |-> opt]
    ELSE IF At(behavior, 0) = "."
    THEN LET o1 == [opt EXCEPT !.flags = @ \cup {CA_OPT_ARG}]
             o2 == IF At(behavior, 1) = "?"
                   THEN [o1 EXCEPT !.flags = @ \cup {CA_OPT_OPTARG}]
                   ELSE o1
         IN  IF At(behavior, 1) # "?" /\ At(behavior, 1) = NUL
             THEN [ret |-> 0, opt |-> o2]
             ELSE IF At(behavior, 2) = NUL
             THEN [ret |-> 0, opt |-> o2]
             ELSE ParseQuantifier(o2, behavior)
    ELSE IF At(behavior, 0) = "*"
    THEN LET o1 == [opt EXCEPT !.flags = @ \cup {CA_OPT_MFLAG}]
         IN  IF At(behavior, 1) = NUL
             THEN [ret |-> 0, opt |-> o1]
             ELSE ParseQuantifier(o1, behavior)
    ELSE ParseQuantifier(opt, behavior)

---------------------------------------------------------------------------
(* ca_lookup_opt *)

\* lines 170-173: the index into short_opt_cache
map_index(short_opt) ==
    IF islower(short_opt) THEN IndexIn(LowerSeq, short_opt) - 1
    ELSE IF isupper(short_opt) THEN IndexIn(UpperSeq, short_opt) - 1 + 26
    ELSE IF isdigit(short_opt) THEN IndexIn(DigitSeq, short_opt) - 1 + 26 + 26
    ELSE -1

\* the cache is a local array of 26 + 26 + 10 pointers
CacheInBounds(idx) == idx >= 0 /\ idx < 26 + 26 + 10

\* first option of `opts` whose field `f` equals `v`, or 0
RECURSIVE FirstMatch(_, _, _, _)
FirstMatch(opts, f, v, k) ==
    IF k > Len(opts) THEN 0
    ELSE IF opts[k][f] = v THEN k
    ELSE FirstMatch(opts, f, v, k + 1)

\* a pointer that is neither NULL nor an option of the registry
Wild == -1

\* The pointers ca_lookup_opt(short_opt, NULL) can return.  The cache is
\* zeroed on every call, so an in-bounds read finds NULL and the loop
\* decides.  For a character that is no letter or digit the read is at index
\* -1, outside the array: it yields NULL (then the loop finds nothing, as
\* no registered short code is such a character) or whatever non-NULL
\* word lies there, which may or may not address a registered option.
LookupShort(opts, short_opt) ==
    IF CacheInBounds(map_index(short_opt))
    THEN {FirstMatch(opts, "short_opt", short_opt, 1)}
    ELSE {0, Wild} \cup (1..Len(opts))

\* ca_lookup_opt('\0', long_opt)
LookupLong(opts, long_opt) == FirstMatch(opts, "long_opt", long_opt, 1)

---------------------------------------------------------------------------
(* Registration and configuration: the calls a client makes before ca_parse *)

\* a slip: the option is pushed before the check that an argument-taking
\* option has a result variable
ca_opt_call_pushes_first(opts, sl, short_opt, long_opt, behavior, result) ==
    IF long_opt = NULL \/ behavior = NULL
    THEN [ret |-> 1, options |-> opts, slot |-> sl]
    ELSE IF short_opt # NUL /\ ~ca_is_short_flag(short_opt)
    THEN [ret |-> 1, options |-> opts, slot |-> sl]
    ELSE IF ca_parse_opt_behavior(NewOpt(short_opt, long_opt, result), behavior).ret # 0
    THEN [ret |-> 1, options |-> opts, slot |-> sl]
    ELSE [ret |-> IF /\ CA_OPT_ARG \in ca_parse_opt_behavior(
                                          NewOpt(short_opt, long_opt, result), behavior).opt.flags
                     /\ result = NULLP
                  THEN 1 ELSE 0,
          options |-> Append(opts, ca_parse_opt_behavior(
                                      NewOpt(short_opt, long_opt, result), behavior).opt),
          slot |-> IF result = NULLP THEN sl ELSE [sl EXCEPT ![result] = NULL]]

\* ca_opt on registry `opts` and caller variables `sl`: the return value and
\* the registry and caller variables it leaves.  `long_opt` and `behavior`
\* may be NULL, `result` is NULLP or the name of a caller variable.
ca_opt_call(opts, sl, short_opt, long_opt, behavior, result) ==
    IF long_opt = NULL \/ behavior = NULL
    THEN [ret |-> 1, options |-> opts, slot |-> sl]
    ELSE IF short_opt # NUL /\ ~ca_is_short_flag(short_opt)
    THEN [ret |-> 1, options |-> opts, slot |-> sl]
    ELSE LET p == ca_parse_opt_behavior(NewOpt(short_opt, long_opt, result), behavior)
         IN  IF p.ret # 0
             THEN [ret |-> 1, options |-> opts, slot |-> sl]
             ELSE IF CA_OPT_ARG \in p.opt.flags
             THEN IF result = NULLP
                  THEN [ret |-> 1, options |-> opts, slot |-> sl]
                  ELSE [ret |-> 0,
                        options |-> Append(opts,
                            [p.opt EXCEPT !.arg_name =
                                IF sl[result] # NULL THEN sl[result] ELSE <<"A","R","G">>]),
                        slot |-> [sl EXCEPT ![result] = NULL]]
             ELSE [ret |-> 0, options |-> Append(opts, p.opt), slot |-> sl]

\* a declaration is the argument list of one ca_opt call
Decl(short_opt, long_opt, behavior, result) ==
    [short_opt |-> short_opt, long_opt |-> long_opt, behavior |-> behavior,
     result |-> result]

ca_opt(d) ==
    /\ pc = "setup"
    /\ LET r == ca_opt_call(options, slot, d.short_opt, d.long_opt, d.behavior, d.result)
       IN  /\ options' = r.options
           /\ slot' = r.slot
           /\ last_reg' = [decl |-> d, ret |-> r.ret, n |-> last_reg.n + 1]
    /\ UNCHANGED <<argv, use_end_of_options, opt_callback, arg_callback, pc>>
    /\ UNCHANGED parseVars

ca_use_end_of_options(use) ==
    /\ pc = "setup"
    /\ use_end_of_options' = use
    /\ UNCHANGED <<argv, options, slot, opt_callback, arg_callback, pc, last_reg>>
    /\ UNCHANGED parseVars

ca_set_callbacks(opt_cb, arg_cb) ==
    /\ pc = "setup"
    /\ opt_callback' = opt_cb
    /\ arg_callback' = arg_cb
    /\ UNCHANGED <<argv, options, slot, use_end_of_options, pc, last_reg>>
    /\ UNCHANGED parseVars

\* app.override_help and app.override_version: set by ca_init, and no
\* function of the library changes them
override_help == FALSE
override_version == FALSE

---------------------------------------------------------------------------
(* ca_construct_results *)

\* the state the scan works on
ScanState(opts, res, cnt, last, only) ==
    [options |-> opts, results |-> res, options_count |-> cnt,
     last_opt |-> last, only_args_now |-> only]

ParseResult(opt, arg) == [opt |-> opt, arg |-> arg]

\* a slip: the option is not marked as passed
ca_parsed_opt_unflagged(st, opt, arg) ==
    [st EXCEPT !.results = Append(@, [opt |-> opt, arg |-> arg]),
               !.options_count = @ + 1]

ca_parsed_opt(st, opt, arg) ==
    [st EXCEPT !.options[opt].was_passed = TRUE,
               !.results = Append(@, ParseResult(opt, arg)),
               !.options_count = @ + 1]

\* a slip: the pending option is not given the argument
ca_parsed_arg_positional(st, arg) ==
    [st EXCEPT !.results = Append(@, ParseResult(0, arg))]

\* a slip: the text of a token that no option awaits is not stored
ca_parsed_arg_drops_text(st, arg) ==
    IF st.last_opt # 0
    THEN [st EXCEPT !.options[st.last_opt].was_passed = TRUE,
                    !.results = Append(@, [opt |-> st.last_opt, arg |-> arg]),
                    !.last_opt = 0]
    ELSE [st EXCEPT !.results = Append(@, [opt |-> 0, arg |-> NULL])]

ca_parsed_arg(st, arg) ==
    IF st.last_opt # 0
    THEN [st EXCEPT !.options[st.last_opt].was_passed = TRUE,
                    !.results = Append(@, ParseResult(st.last_opt, arg)),
                    !.last_opt = 0]
    ELSE [st EXCEPT !.results = Append(@, ParseResult(0, arg))]

Ok(st) == [kind |-> "ok", err |-> "", st |-> st]
Fail(e, st) == [kind |-> "fail", err |-> e, st |-> st]
Crash(st) == [kind |-> "crash", err |-> "", st |-> st]

\* a pointer the code may dereference: an option of the registry
Valid(st, opt) == opt \in 1..Len(st.options)

\* lines 506-518: the characters after the first must all be multiflag
RECURSIVE ValidateBundle(_, _, _)
ValidateBundle(st, cur, j) ==
    IF At(cur, j) = NUL THEN {"ok"}
    ELSE UNION {
        IF opt = 0 THEN {"unknown_flag"}
        ELSE IF ~Valid(st, opt) THEN {"crash"}
        ELSE IF CA_OPT_MFLAG \notin st.options[opt].flags THEN {"separate"}
        ELSE ValidateBundle(st, cur, j + 1)
        : opt \in LookupShort(st.options, At(cur, j)) }

\* lines 519-523: one argument-less result per character, each looked up
\* again
RECURSIVE EmitBundle(_, _, _)
EmitBundle(st, cur, j) ==
    IF At(cur, j) = NUL THEN {Ok(st)}
    ELSE UNION {
        IF ~Valid(st, opt) THEN {Crash(st)}
        ELSE EmitBundle(ca_parsed_opt(st, opt, NULL), cur, j + 1)
        : opt \in LookupShort(st.options, At(cur, j)) }

\* a slip: an attached argument is ignored and the option left pending
Resolve_ignores_attached(st, opt, arg) ==
    IF CA_OPT_ARG \in st.options[opt].flags
    THEN [kind |-> "ok", err |-> "", st |-> [st EXCEPT !.last_opt = opt]]
    ELSE [kind |-> "ok", err |-> "",
          st |-> [st EXCEPT !.options[opt].was_passed = TRUE,
                            !.results = Append(@, [opt |-> opt, arg |-> arg]),
                            !.options_count = @ + 1]]

\* lines 545-550: defer an option that takes an argument and has none yet
Resolve(st, opt, arg) ==
    IF arg = NULL /\ CA_OPT_ARG \in st.options[opt].flags
    THEN Ok([st EXCEPT !.last_opt = opt])
    ELSE Ok(ca_parsed_opt(st, opt, arg))

\* lines 490-537: a short option token, `opt` being what the first lookup
\* returned
ShortToken(st, cur, opt) ==
    IF opt = 0 THEN {Fail("unknown_flag", st)}
    ELSE IF At(cur, 2) = NUL
    THEN IF Valid(st, opt) THEN {Resolve(st, opt, NULL)} ELSE {Crash(st)}
    ELSE IF ~Valid(st, opt) THEN {Crash(st)}
    ELSE IF CA_OPT_MFLAG \in st.options[opt].flags
    THEN UNION {
            IF v = "ok" THEN EmitBundle(st, cur, 1)
            ELSE IF v = "crash" THEN {Crash(st)}
            ELSE {Fail(v, st)}
            : v \in ValidateBundle(st, cur, 2) }
    ELSE UNION {
            IF ~Valid(st, again) THEN {Crash(st)}
            ELSE IF CA_OPT_ARG \notin st.options[again].flags
            THEN {Fail("no_args", st)}
            ELSE {Resolve(st, again, Tail_(cur, 2))}
            : again \in LookupShort(st.options, At(cur, 1)) }

\* lines 475-551: a token that starts with `-` and is neither `-` nor `--`
OptionToken(st, cur) ==
    IF st.last_opt # 0 /\ CA_OPT_OPTARG \notin st.options[st.last_opt].flags
    THEN {Fail("missing_arg", st)}
    ELSE LET s0 == [st EXCEPT !.last_opt = 0]
         IN  IF At(cur, 1) # "-"
             THEN UNION {ShortToken(s0, cur, opt) :
                            opt \in LookupShort(s0.options, At(cur, 1))}
             ELSE LET opt == LookupLong(s0.options, Tail_(cur, 2))
                  IN  IF opt = 0 THEN {Fail("unknown_flag", s0)}
                      ELSE {Resolve(s0, opt, NULL)}

\* a slip: `--` is emitted whether or not end-of-options handling is on
EndOfOptions_emits(st, cur, use_eoo) ==
    IF use_eoo
    THEN Ok([ca_parsed_arg(st, cur) EXCEPT !.only_args_now = TRUE])
    ELSE Ok(ca_parsed_arg(st, cur))

\* lines 465-473: the token `--`
EndOfOptions(st, cur, use_eoo) ==
    IF use_eoo
    THEN Ok([st EXCEPT !.only_args_now = TRUE])
    ELSE Ok(ca_parsed_arg(st, cur))

\* lines 448-556: one iteration of the loop, on the token `cur`
ScanToken(st, cur, use_eoo) ==
    IF st.only_args_now
    THEN {Ok(ca_parsed_arg(st, cur))}
    ELSE IF At(cur, 0) = "-"
    THEN IF At(cur, 1) = NUL
         THEN {Ok(ca_parsed_arg(st, cur))}
         ELSE IF cur = <<"-", "-">>
         THEN {EndOfOptions(st, cur, use_eoo)}
         ELSE OptionToken(st, cur)
    ELSE {Ok(ca_parsed_arg(st, cur))}

---------------------------------------------------------------------------
(* ca_verify_results *)

\* refs were checked to be letters and digits at registration (lines
\* 153-157), so this lookup reads the cache in bounds
LookupRef(opts, c) == FirstMatch(opts, "short_opt", c, 1)

Verdict(v) == [err |-> "", verdict |-> v]
ConfigError == [err |-> "config", verdict |-> FALSE]

\* a slip: a ref that names no option counts as an option not passed
RECURSIVE AnyLoop_skips_unknown(_, _, _)
AnyLoop_skips_unknown(opts, refs, j) ==
    IF At(refs, j) = NUL THEN [err |-> "", verdict |-> FALSE]
    ELSE IF /\ FirstMatch(opts, "short_opt", At(refs, j), 1) # 0
            /\ opts[FirstMatch(opts, "short_opt", At(refs, j), 1)].was_passed
    THEN [err |-> "", verdict |-> TRUE]
    ELSE AnyLoop_skips_unknown(opts, refs, j + 1)

\* lines 581-598
RECURSIVE AnyLoop(_, _, _)
AnyLoop(opts, refs, j) ==
    IF At(refs, j) = NUL THEN Verdict(FALSE)
    ELSE LET ref == LookupRef(opts, At(refs, j))
         IN  IF ref = 0 THEN ConfigError
             ELSE IF opts[ref].was_passed THEN Verdict(TRUE)
             ELSE AnyLoop(opts, refs, j + 1)

\* a slip: the loop stops on the first ref that was passed
RECURSIVE AllLoop_first(_, _, _)
AllLoop_first(opts, refs, j) ==
    IF At(refs, j) = NUL THEN [err |-> "", verdict |-> TRUE]
    ELSE IF FirstMatch(opts, "short_opt", At(refs, j), 1) = 0
    THEN [err |-> "config", verdict |-> FALSE]
    ELSE [err |-> "",
          verdict |-> opts[FirstMatch(opts, "short_opt", At(refs, j), 1)].was_passed]

\* lines 599-616
RECURSIVE AllLoop(_, _, _)
AllLoop(opts, refs, j) ==
    IF At(refs, j) = NUL THEN Verdict(TRUE)
    ELSE LET ref == LookupRef(opts, At(refs, j))
         IN  IF ref = 0 THEN ConfigError
             ELSE IF ~opts[ref].was_passed THEN Verdict(FALSE)
             ELSE AllLoop(opts, refs, j + 1)

\* lines 617-640: the comparison with options_count is made inside the
\* loop, after each ref
RECURSIVE OnlyLoop(_, _, _, _, _, _)
OnlyLoop(opts, refs, j, cnt, allowed_count, verdict) ==
    IF At(refs, j) = NUL THEN Verdict(verdict)
    ELSE LET ref == LookupRef(opts, At(refs, j))
         IN  IF ref = 0 THEN ConfigError
             ELSE LET a == IF opts[ref].was_passed
                           THEN allowed_count + 1 ELSE allowed_count
                  IN  OnlyLoop(opts, refs, j + 1, cnt, a,
                               IF cnt > a THEN FALSE ELSE verdict)

\* lines 580-645: the switch on the quantifier
QuantifierVerdict(opts, cnt, o) ==
    CASE o.quantifier = CA_OPT_QUANTIFIER_ANY -> AnyLoop(opts, o.refs, 0)
      [] o.quantifier = CA_OPT_QUANTIFIER_ALL -> AllLoop(opts, o.refs, 0)
      [] o.quantifier = CA_OPT_QUANTIFIER_ONLY ->
             OnlyLoop(opts, o.refs, 0, cnt, 0, TRUE)
      [] OTHER -> Verdict(TRUE)

\* a slip: the negation is not applied
OptVerdict_not_negated(opts, cnt, opt) ==
    QuantifierVerdict(opts, cnt, opts[opt])

\* lines 578-649: the verdict on one passed option, negation applied
OptVerdict(opts, cnt, opt) ==
    LET v == QuantifierVerdict(opts, cnt, opts[opt])
    IN  IF v.err # "" THEN v
        ELSE IF opts[opt].quantifier_is_negated THEN Verdict(~v.verdict)
        ELSE v

\* the return value, the kind of error printed and the index of the result
\* the loop of line 572 returned on (0 when it ran to the end)
RECURSIVE VerifyFrom(_, _, _, _)
VerifyFrom(opts, res, cnt, k) ==
    IF k > Len(res) THEN [ret |-> 0, err |-> "", at |-> 0]
    ELSE IF res[k].opt = 0 THEN VerifyFrom(opts, res, cnt, k + 1)
    ELSE LET v == OptVerdict(opts, cnt, res[k].opt)
         IN  IF v.err # "" THEN [ret |-> 1, err |-> v.err, at |-> k]
             ELSE IF ~v.verdict THEN [ret |-> 1, err |-> "constraint", at |-> k]
             ELSE VerifyFrom(opts, res, cnt, k + 1)

ca_verify_results(opts, res, cnt) == VerifyFrom(opts, res, cnt, 1)

---------------------------------------------------------------------------
(* the dispatch loop of ca_parse, lines 730-747 *)

help == <<"h", "e", "l", "p">>
version == <<"v", "e", "r", "s", "i", "o", "n">>

\* a slip: results that name --help or --version go to the option callback
CallFor_forwards_builtins(opts, r) ==
    IF r.opt # 0
    THEN [fn |-> "opt_callback", short_opt |-> opts[r.opt].short_opt,
          long_opt |-> opts[r.opt].long_opt, arg |-> r.arg]
    ELSE [fn |-> "arg_callback", arg |-> r.arg]

\* what one result makes the loop call
CallFor(opts, r) ==
    IF r.opt # 0
    THEN IF ~override_help /\ opts[r.opt].long_opt = help
         THEN [fn |-> "ca_print_help"]
         ELSE IF ~override_version /\ opts[r.opt].long_opt = version
         THEN [fn |-> "ca_print_version"]
         ELSE [fn |-> "opt_callback", short_opt |-> opts[r.opt].short_opt,
               long_opt |-> opts[r.opt].long_opt, arg |-> r.arg]
    ELSE [fn |-> "arg_callback", arg |-> r.arg]

\* the function pointer the call goes through is NULL
ThroughNull(c, opt_cb, arg_cb) ==
    \/ c.fn = "opt_callback" /\ ~opt_cb
    \/ c.fn = "arg_callback" /\ ~arg_cb

\* The runs of the loop from result k on, `done` being the calls made so
\* far.  A call through a NULL function pointer is not guarded: it traps, or
\* it executes whatever lies at address 0 and comes back.
RECURSIVE DispatchFrom(_, _, _, _, _, _)
DispatchFrom(opts, res, opt_cb, arg_cb, k, done) ==
    IF k > Len(res) THEN {[crashed |-> FALSE, calls |-> done]}
    ELSE LET c == CallFor(opts, res[k])
         IN  IF ThroughNull(c, opt_cb, arg_cb)
             THEN {[crashed |-> TRUE, calls |-> done]}
                  \cup DispatchFrom(opts, res, opt_cb, arg_cb, k + 1,
                                    Append(done, [fn |-> "null_call", of |-> c]))
             ELSE DispatchFrom(opts, res, opt_cb, arg_cb, k + 1, Append(done, c))

---------------------------------------------------------------------------
(* ca_parse, in the steps it takes *)

\* the number of ca_parse calls a client makes
MaxRuns == 2

\* what a call of ca_parse leaves behind: the result sequence, the
\* was_passed flag of every option, the counter and the return value
RunOutcome ==
    [results |-> results,
     was_passed |-> [k \in DOMAIN options |-> options[k].was_passed],
     options_count |-> options_count,
     ret |-> ret]

\* a slip: the was_passed flags and the counter are not reset
ca_parse_begin_keeps_flags ==
    /\ pc \in {"setup", "done"}
    /\ runs < MaxRuns
    /\ runs' = runs + 1
    /\ first_run' = IF runs = 1 THEN RunOutcome ELSE first_run
    /\ results' = <<>>
    /\ i' = 1
    /\ only_args_now' = FALSE
    /\ last_opt' = 0
    /\ ret' = NoRet
    /\ err' = ""
    /\ err_at' = 0
    /\ calls' = <<>>
    /\ pc' = "scan"
    /\ UNCHANGED <<argv, options, options_count, slot, use_end_of_options,
                   opt_callback, arg_callback, last_reg, dyn>>

\* lines 712-718
ca_parse_begin ==
    /\ pc \in {"setup", "done"}
    /\ runs < MaxRuns
    /\ runs' = runs + 1
    /\ first_run' = IF runs = 1 THEN RunOutcome ELSE first_run
    /\ options' = [k \in DOMAIN options |-> [options[k] EXCEPT !.was_passed = FALSE]]
    /\ options_count' = 0
    /\ results' = <<>>
    /\ i' = 1
    /\ only_args_now' = FALSE
    /\ last_opt' = 0
    /\ ret' = NoRet
    /\ err' = ""
    /\ err_at' = 0
    /\ calls' = <<>>
    /\ pc' = "scan"
    /\ UNCHANGED <<argv, slot, use_end_of_options, opt_callback, arg_callback,
                   last_reg, dyn>>

\* one iteration of the loop of ca_construct_results
ca_construct_results_step ==
    /\ pc = "scan"
    /\ i <= Len(argv)
    /\ \E out \in ScanToken(ScanState(options, results, options_count, last_opt,
                                      only_args_now), argv[i], use_end_of_options) :
          /\ options' = out.st.options
          /\ results' = out.st.results
          /\ options_count' = out.st.options_count
          /\ last_opt' = out.st.last_opt
          /\ only_args_now' = out.st.only_args_now
          /\ i' = IF out.kind = "ok" THEN i + 1 ELSE i
          /\ pc' = CASE out.kind = "ok" -> "scan"
                     [] out.kind = "fail" -> "done"
                     [] OTHER -> "crashed"
          /\ ret' = IF out.kind = "fail" THEN 1 ELSE ret
          /\ err' = out.err
    /\ UNCHANGED <<argv, slot, use_end_of_options, opt_callback, arg_callback,
                   err_at, calls, last_reg, runs, first_run, dyn>>

\* lines 559-565: the loop is over
ca_construct_results_end ==
    /\ pc = "scan"
    /\ i > Len(argv)
    /\ IF last_opt # 0 /\ CA_OPT_OPTARG \notin options[last_opt].flags
       THEN /\ ret' = 1
            /\ err' = "missing_arg"
            /\ pc' = "done"
       ELSE /\ pc' = "verify"
            /\ UNCHANGED <<ret, err>>
    /\ UNCHANGED <<argv, options, slot, use_end_of_options, opt_callback,
                   arg_callback, i, only_args_now, last_opt, results,
                   options_count, err_at, calls, last_reg, runs, first_run, dyn>>

\* a slip: the return value of ca_verify_results is not acted on
ca_parse_verify_ungated ==
    /\ pc = "verify"
    /\ err' = ca_verify_results(options, results, options_count).err
    /\ err_at' = ca_verify_results(options, results, options_count).at
    /\ pc' = "dispatch"
    /\ UNCHANGED <<argv, options, slot, use_end_of_options, opt_callback,
                   arg_callback, i, only_args_now, last_opt, results,
                   options_count, ret, calls, last_reg, runs, first_run, dyn>>

\* lines 725-728
ca_parse_verify ==
    /\ pc = "verify"
    /\ LET v == ca_verify_results(options, results, options_count)
       IN  /\ err' = v.err
           /\ err_at' = v.at
           /\ IF v.ret # 0
              THEN ret' = 1 /\ pc' = "done"
              ELSE ret' = ret /\ pc' = "dispatch"
    /\ UNCHANGED <<argv, options, slot, use_end_of_options, opt_callback,
                   arg_callback, i, only_args_now, last_opt, results,
                   options_count, calls, last_reg, runs, first_run, dyn>>

\* lines 730-749
ca_parse_dispatch ==
    /\ pc = "dispatch"
    /\ \E run \in DispatchFrom(options, results, opt_callback, arg_callback, 1, <<>>) :
          /\ calls' = run.calls
          /\ pc' = IF run.crashed THEN "crashed" ELSE "done"
          /\ ret' = IF run.crashed THEN ret ELSE 0
    /\ UNCHANGED <<argv, options, slot, use_end_of_options, opt_callback,
                   arg_callback, i, only_args_now, last_opt, results,
                   options_count, err, err_at, last_reg, runs, first_run, dyn>>

ca_parse ==
    \/ ca_parse_begin
    \/ ca_construct_results_step
    \/ ca_construct_results_end
    \/ ca_parse_verify
    \/ ca_parse_dispatch

\* a step of the one ca_parse call of a client that calls it once
ca_parse_once == ca_parse /\ runs' = 1

---------------------------------------------------------------------------
(* The client program: ca_init with an argument vector, then registration *)
(* and configuration calls, then ca_parse                                  *)

\* sequences over S of length at most n
SeqsUpTo(S, n) == UNION {[1..k -> S] : k \in 0..n}

NoDecl == Decl(NUL, NULL, NULL, NULLP)

\* the caller's variables before registration: `file_arg` holds the name
\* its argument is to be displayed with, `expr_arg` holds NULL
SlotNames == {"file_arg", "expr_arg"}
InitSlot == [s \in SlotNames |-> IF s = "file_arg" THEN <<"F">> ELSE NULL]

\* the state ca_init leaves, for an argument vector out of Argvs
InitWith(Argvs) ==
    /\ argv \in Argvs
    /\ options = <<>>
    /\ slot = InitSlot
    /\ use_end_of_options = TRUE
    /\ opt_callback = FALSE
    /\ arg_callback = FALSE
    /\ pc = "setup"
    /\ i = 1
    /\ only_args_now = FALSE
    /\ last_opt = 0
    /\ results = <<>>
    /\ options_count = 0
    /\ ret = NoRet
    /\ err = ""
    /\ err_at = 0
    /\ calls = <<>>
    /\ last_reg = [decl |-> NoDecl, ret |-> 0, n |-> 0]
    /\ dyn = ca_dynamic_new(SizeofOpt)
    /\ runs = 0
    /\ first_run = [results |-> <<>>, was_passed |-> <<>>, options_count |-> 0,
                    ret |-> NoRet]

\* A client program lists its ca_opt calls in order; prog[n] is the set of
\* declarations its n-th call may make.
NextDecls(prog) ==
    IF last_reg.n < Len(prog) THEN prog[last_reg.n + 1] ELSE {}

---------------------------------------------------------------------------
(* Spec: a client with multiflag options -a and -b, --file with a required *)
(* argument and --expr with an optional one, scanning every vector of at   *)
(* most MaxArgs of the tokens below                                        *)

MaxArgs == 3

aa == <<"a", "a">>
bb == <<"b", "b">>
file == <<"f", "i", "l", "e">>
expr == <<"e", "x", "p", "r">>

ScanProgram ==
    << {Decl("a", aa, <<"*">>, NULLP)},
       {Decl("b", bb, <<"*">>, NULLP)},
       {Decl("f", file, <<".">>, "file_arg")},
       {Decl("e", expr, <<".", "?">>, "expr_arg")} >>

Dashes(s) == <<"-", "-">> \o s

ScanTokens ==
    { Dashes(expr), Dashes(file), <<"x">>, <<"-">>, <<"-", "-">>,
      <<"-", "a", "b">>, <<"-", "a", "f">>, <<"-", "a", "x">>, <<"-", "a", "#">> }

Init == InitWith(SeqsUpTo(ScanTokens, MaxArgs))

Next ==
    \/ \E d \in NextDecls(ScanProgram) : ca_opt(d)
    \/ \E use \in BOOLEAN : ca_use_end_of_options(use)
    \/ ca_set_callbacks(TRUE, TRUE)
    \/ ca_parse_once

Spec == Init /\ [][Next]_vars

---------------------------------------------------------------------------
(* Properties of the scan *)

DashDash == <<"-", "-">>

\* the token after `-`: starts with `-` and is neither `-` nor `--`
OptionLooking(t) == At(t, 0) = "-" /\ t # <<"-">> /\ t # DashDash

\* option k takes an argument that is not optional
Required(k) == /\ CA_OPT_ARG \in options[k].flags
               /\ CA_OPT_OPTARG \notin options[k].flags

\* the scan read every token and returned 0
ScanSucceeded == pc = "verify"

\* the scan returned 1, so did ca_parse
ScanFailedWith(e) == pc' = "done" /\ ret' = 1 /\ err' = e

\* the step reads token argv[i]
ReadsToken == pc = "scan" /\ i <= Len(argv)

\* C1: for [--expr, --file, x], expr declared `.?` and file declared `.`, the
\* results of the scan are exactly {expr, none} then {file, "x"}.
C1_OptionalThenFlag ==
    ( /\ ScanSucceeded
      /\ argv = <<Dashes(expr), Dashes(file), <<"x">> >>
      /\ LookupLong(options, expr) # 0
      /\ LookupLong(options, file) # 0 )
    => results = << ParseResult(LookupLong(options, expr), NULL),
                    ParseResult(LookupLong(options, file), <<"x">>) >>

\* the argument of the last result that names option k, NULL when no
\* result names it with an argument
RECURSIVE ArgPassed(_, _, _)
ArgPassed(res, k, n) ==
    IF n = 0 THEN NULL
    ELSE IF res[n].opt = k /\ res[n].arg # NULL THEN res[n].arg
    ELSE ArgPassed(res, k, n - 1)

\* C2: after ca_parse returned success, the caller variable registered as
\* `result` of every argument-taking option holds the argument passed to it in
\* this invocation, and NULL when it was passed none.
C2_ResultSlotHoldsArgument ==
    (pc = "done" /\ ret = 0 /\ opt_callback /\ arg_callback)
    => \A k \in DOMAIN options :
          CA_OPT_ARG \in options[k].flags
          => slot[options[k].result] = ArgPassed(results, k, Len(results))

\* the scan stands right after an option that requires an argument and was
\* given none inline
PendingRequired ==
    /\ pc = "scan"
    /\ last_opt # 0
    /\ Required(last_opt)
    /\ ~only_args_now

\* the step consumes argv[i] as the pending option's argument: one result,
\* {option, token}
ConsumesAsArgument ==
    /\ results' = Append(results, ParseResult(last_opt, argv[i]))
    /\ last_opt' = 0
    /\ pc' = "scan"

\* C4 as stated: a pending required option takes the next token when that
\* token is not option-looking, in one result {option, token}; when there is no
\* next token or it is option-looking, ca_parse fails with "missing required
\* argument".
C4_AsStated ==
    [][ PendingRequired =>
          IF i > Len(argv) \/ OptionLooking(argv[i])
          THEN ScanFailedWith("missing_arg") /\ results' = results
          ELSE ConsumesAsArgument ]_vars

\* C4, amended: as stated, except for the token `--` while end-of-options
\* handling is on: it is skipped, nothing is emitted and the option stays
\* pending; the token after it, whatever it looks like, is then consumed as
\* the argument, and the end of the vector is a missing required argument.
C4_RequiredArgument ==
    [][ /\ PendingRequired =>
            IF i > Len(argv) \/ OptionLooking(argv[i])
            THEN ScanFailedWith("missing_arg") /\ results' = results
            ELSE IF argv[i] = DashDash /\ use_end_of_options
            THEN /\ results' = results
                 /\ last_opt' = last_opt
                 /\ only_args_now'
                 /\ pc' = "scan"
            ELSE ConsumesAsArgument
        /\ (pc = "scan" /\ last_opt # 0 /\ Required(last_opt) /\ only_args_now) =>
            IF i > Len(argv)
            THEN ScanFailedWith("missing_arg") /\ results' = results
            ELSE ConsumesAsArgument ]_vars

\* [--file, x] was scanned: the one result is {file, "x"}
C4_Witness ==
    /\ ScanSucceeded
    /\ argv = <<Dashes(file), <<"x">> >>
    /\ LookupLong(options, file) # 0
    /\ results = <<ParseResult(LookupLong(options, file), <<"x">>)>>

\* the option a short flag names, 0 when none does
Named(c) == FirstMatch(options, "short_opt", c, 1)

IsMultiflag(c) == Named(c) # 0 /\ CA_OPT_MFLAG \in options[Named(c)].flags

\* one argument-less result per character of s, in order
RECURSIVE BundleResults(_)
BundleResults(s) ==
    IF s = <<>> THEN <<>>
    ELSE <<ParseResult(Named(Head(s)), NULL)>> \o BundleResults(Tail(s))

\* the step reads a short-option token of several characters whose first flag
\* is a registered multiflag option, no required argument being awaited
ReadsBundle ==
    /\ ReadsToken
    /\ ~only_args_now
    /\ ~(last_opt # 0 /\ Required(last_opt))
    /\ Len(argv[i]) >= 3
    /\ argv[i][1] = "-"
    /\ argv[i][2] # "-"
    /\ IsMultiflag(argv[i][2])

\* C5: such a token emits one argument-less result per character, in order,
\* when every character is a registered multiflag option; if a character is
\* unknown or names an option that is not multiflag, the scan fails and no
\* result of the token has been emitted.
C5_MultiflagBundle ==
    [][ ReadsBundle =>
          IF \A c \in Range(Tail(argv[i])) : IsMultiflag(c)
          THEN /\ results' = results \o BundleResults(Tail(argv[i]))
               /\ pc' = "scan"
          ELSE /\ pc' = "done"
               /\ ret' = 1
               /\ results' = results ]_vars

\* the step the claim of C6 is about: `--` itself, or a token after it
AtEndOfOptions ==
    /\ ReadsToken
    /\ only_args_now \/ argv[i] = DashDash

Positional == results' = Append(results, ParseResult(0, argv[i]))

\* C6 as stated: with end-of-options handling on, `--` emits nothing and
\* every later token is emitted as a bare positional argument, whatever
\* preceded `--`; with it off, `--` is emitted as a bare positional argument
\* and later tokens are still scanned as options.
C6_AsStated ==
    [][ AtEndOfOptions =>
          IF only_args_now THEN Positional /\ only_args_now'
          ELSE IF use_end_of_options THEN results' = results /\ only_args_now'
          ELSE Positional /\ ~only_args_now' ]_vars

\* what ca_parsed_arg emits for argv[i]: the argument of the option that
\* awaits one, a bare positional argument otherwise
PositionalOrArgument ==
    IF last_opt # 0
    THEN results' = Append(results, ParseResult(last_opt, argv[i])) /\ last_opt' = 0
    ELSE Positional

\* C6, amended: as stated, except that while an option still awaits its
\* argument the token that would have been a bare positional argument (the
\* first token after `--` with the handling on, `--` itself with it off) is
\* emitted as that option's argument instead.
C6_EndOfOptions ==
    [][ AtEndOfOptions =>
          /\ pc' = "scan"
          /\ IF only_args_now THEN PositionalOrArgument /\ only_args_now'
             ELSE IF use_end_of_options
             THEN results' = results /\ last_opt' = last_opt /\ only_args_now'
             ELSE PositionalOrArgument /\ ~only_args_now' ]_vars

\* after `--`, the token -ab was emitted as a bare positional argument
C6_Witness ==
    /\ ScanSucceeded
    /\ use_end_of_options
    /\ argv = <<DashDash, <<"-", "a", "b">> >>
    /\ results = <<ParseResult(0, <<"-", "a", "b">>)>>

\* token t names no registered option: a long name that is not registered, a
\* first short flag that is not registered, or, behind a multiflag first
\* flag, a character that is not registered with only multiflag options
\* between
UnknownOption(t) ==
    IF At(t, 1) = "-"
    THEN LookupLong(options, Tail_(t, 2)) = 0
    ELSE \/ Named(At(t, 1)) = 0
         \/ /\ IsMultiflag(At(t, 1))
            /\ \E j \in 2..(Len(t) - 1) :
                  /\ Named(At(t, j)) = 0
                  /\ \A m \in 2..(j - 1) : IsMultiflag(At(t, m))

\* the step reads an option token, no required argument being awaited
ReadsOption ==
    /\ ReadsToken
    /\ ~only_args_now
    /\ OptionLooking(argv[i])
    /\ ~(last_opt # 0 /\ Required(last_opt))

\* C22: an option token that names no registered option, by a short flag
\* character of any kind or by its long name, makes the scan fail at once
\* with an unknown-option error: ca_parse returns 1 and no result is emitted
\* for the token.
C22_UnknownOption ==
    [][ (ReadsOption /\ UnknownOption(argv[i]))
        => (ScanFailedWith("unknown_flag") /\ results' = results) ]_vars

\* C26: when --expr, declared `.?`, is the last token of the vector and is
\* read as an option, the scan succeeds and its last result is {expr, none},
\* with was_passed set on expr.
C26_OptionalAtEnd ==
    ( /\ pc \in {"scan", "verify"}
      /\ i > Len(argv)
      /\ Len(argv) >= 1
      /\ argv[Len(argv)] = Dashes(expr)
      /\ ~only_args_now
      /\ LookupLong(options, expr) # 0 )
    => /\ results # <<>>
       /\ results[Len(results)] = ParseResult(LookupLong(options, expr), NULL)
       /\ options[LookupLong(options, expr)].was_passed

\* an option is flagged as passed iff some result names it
FlagsMatchResults ==
    \A k \in DOMAIN options :
        options[k].was_passed <=> \E n \in DOMAIN results : results[n].opt = k

\* C28: from the moment ca_parse is entered, during the scan and after it,
\* was_passed of an option is true iff at least one result of the current
\* result sequence names the option; the verification and the dispatch
\* change neither the flags nor the result sequence.
C28_FlagsAndResults ==
    [][ /\ pc' # "setup" => FlagsMatchResults'
        /\ pc \in {"verify", "dispatch"}
              => (options' = options /\ results' = results) ]_vars

\* in the middle of a scan, one option has been passed and another has not
C28_Witness ==
    /\ pc = "scan"
    /\ i <= Len(argv)
    /\ results # <<>>
    /\ \E j, k \in DOMAIN options :
          options[j].was_passed /\ ~options[k].was_passed

\* the characters of the short-option token t that the scan hands to
\* ca_lookup_opt: the first flag and, behind a multiflag first flag, the
\* characters of the bundle up to the first that is no multiflag option
LookedUp(t) ==
    {At(t, 1)} \cup
    IF IsMultiflag(At(t, 1))
    THEN {At(t, j) : j \in {n \in 2..(Len(t) - 1) :
                                \A m \in 2..(n - 1) : IsMultiflag(At(t, m))}}
    ELSE {}

\* C29: ca_lookup_opt reads its cache of 62 entries only at the indices
\* 0..61, for every character the scan looks up (the characters after `-`
\* of a short-option token) and for every ref character the verification
\* looks up.
C29_CacheIndexInBounds ==
    /\ (ReadsOption /\ At(argv[i], 1) # "-")
          => \A c \in LookedUp(argv[i]) : CacheInBounds(map_index(c))
    /\ \A k \in DOMAIN options :
          \A c \in Range(options[k].refs) : CacheInBounds(map_index(c))

\* the results that name an option
OptionResults == {k \in DOMAIN results : results[k].opt # 0}

\* C15: at the end of every successful scan, options_count is the number of
\* results that name an option, whichever way the option got its result:
\* without argument, with an attached argument, with the following token as
\* argument, or as member of a bundle.
C15_OptionsCount ==
    ScanSucceeded => options_count = Cardinality(OptionResults)

---------------------------------------------------------------------------
(* SpecVerify: a client with options -a and -b and an option -O that       *)
(* carries a quantifier clause over them, scanning vectors of -a, -b, -O   *)

opt == <<"o", "p", "t">>

\* the behavior strings -O is declared with; x is the short code of no
\* option
Clauses ==
    { <<"&", "a", "b">>, <<"&">>, <<"&", "a", "x">>,
      <<"@", "a", "b">>, <<"!", "@", "a", "b">>, <<"@">>, <<"!", "@">>,
      <<"@", "x", "a">>, <<"@", "a", "x">>, <<"!", "@", "x", "a">>,
      <<"<", "a">>, <<"<", "O", "a">>, <<"<">>,
      <<"&", "x", "a">>, <<"!", "&", "a", "x">>, <<"<", "a", "x">>, <<"<", "x", "a">> }

VerifyProgram ==
    << {Decl("a", aa, <<"*">>, NULLP)},
       {Decl("b", bb, <<"*">>, NULLP)},
       {Decl("O", opt, q, NULLP) : q \in Clauses} >>

VerifyTokens == { <<"-", "a">>, <<"-", "b">>, <<"-", "O">> }

InitVerify == InitWith(SeqsUpTo(VerifyTokens, MaxArgs))

NextVerify ==
    \/ \E d \in NextDecls(VerifyProgram) : ca_opt(d)
    \/ ca_set_callbacks(TRUE, TRUE)
    \/ ca_parse

SpecVerify == InitVerify /\ [][NextVerify]_vars

\* ca_verify_results has run on the results of a successful scan
VerifyRan ==
    \/ pc = "dispatch"
    \/ pc = "done" /\ ret = 0
    \/ pc = "done" /\ err \in {"config", "constraint"}

\* result k names an option with quantifier q, negated or not as neg says
Quantified(k, q, neg) ==
    /\ results[k].opt # 0
    /\ options[results[k].opt].quantifier = q
    /\ options[results[k].opt].quantifier_is_negated = neg

RefsOf(k) == Range(options[results[k].opt].refs)

\* the ref names a registered option / one that was passed in this scan
Registered(c) == Named(c) # 0
Passed(c) == Named(c) # 0 /\ options[Named(c)].was_passed

\* verification did not stop before result k
Reached(k) == err_at = 0 \/ err_at >= k

\* the option of result k passed / failed its verification
Succeeds(k) == err_at # k
FailsWith(k, e) == err_at = k /\ err = e /\ ret = 1

\* every option that some result names is the option of result k or is
\* named in its refs
OnlyAllowedPassed(k) ==
    \A n \in DOMAIN results :
        results[n].opt # 0 =>
            \/ results[n].opt = results[k].opt
            \/ options[results[n].opt].short_opt \in RefsOf(k)

\* C7: a passed option with a non-negated ONLY clause passes verification
\* iff every option passed in the invocation is this option or one named in
\* its refs; so it passes when passed alone without being listed in its own
\* refs.
C7_OnlyVerdict ==
    VerifyRan =>
        \A k \in DOMAIN results :
            (Quantified(k, CA_OPT_QUANTIFIER_ONLY, FALSE) /\ Reached(k)
             /\ \A c \in RefsOf(k) : Registered(c))
            => (Succeeds(k) <=> OnlyAllowedPassed(k))

\* C8: a passed option with a non-negated ALL clause passes verification iff
\* every option named in its refs was passed in the same scan (always, when
\* refs is empty); when it fails and every ref names a registered option, the
\* failure is a constraint violation.
C8_AllVerdict ==
    VerifyRan =>
        \A k \in DOMAIN results :
            (Quantified(k, CA_OPT_QUANTIFIER_ALL, FALSE) /\ Reached(k))
            => /\ Succeeds(k) <=> \A c \in RefsOf(k) : Passed(c)
               /\ (~Succeeds(k) /\ \A c \in RefsOf(k) : Registered(c))
                    => FailsWith(k, "constraint")

\* -O declared `&ab` was passed with -a and -b and verification succeeded
C8_Witness ==
    /\ pc = "dispatch"
    /\ \E k \in DOMAIN results :
          /\ Quantified(k, CA_OPT_QUANTIFIER_ALL, FALSE)
          /\ options[results[k].opt].refs = <<"a", "b">>
          /\ Passed("a") /\ Passed("b")

\* C9 as stated: a passed option with an ANY clause passes verification iff
\* at least one option named in its refs was passed when the clause is not
\* negated, iff none was when it is negated.
C9_AsStated ==
    VerifyRan =>
        \A k \in DOMAIN results : \A neg \in BOOLEAN :
            (Quantified(k, CA_OPT_QUANTIFIER_ANY, neg) /\ Reached(k))
            => (Succeeds(k) <=> (neg # (\E c \in RefsOf(k) : Passed(c))))

\* in the refs of result k, a character that names no registered option
\* stands before every ref that was passed
RECURSIVE UnknownFirst(_)
UnknownFirst(refs) ==
    IF refs = <<>> THEN FALSE
    ELSE IF ~Registered(Head(refs)) THEN TRUE
    ELSE IF Passed(Head(refs)) THEN FALSE
    ELSE UnknownFirst(Tail(refs))

\* C9, amended: as stated, except when a ref that names no registered option
\* stands before every passed ref: verification then fails with a
\* configuration error, negated or not.  Otherwise a failure is a constraint
\* violation.
C9_AnyVerdict ==
    VerifyRan =>
        \A k \in DOMAIN results : \A neg \in BOOLEAN :
            (Quantified(k, CA_OPT_QUANTIFIER_ANY, neg) /\ Reached(k))
            => IF UnknownFirst(options[results[k].opt].refs)
               THEN FailsWith(k, "config")
               ELSE /\ Succeeds(k) <=> (neg # (\E c \in RefsOf(k) : Passed(c)))
                    /\ ~Succeeds(k) => FailsWith(k, "constraint")

\* -O declared `!@ab` was passed with neither -a nor -b and verification
\* succeeded
C9_Witness ==
    /\ pc = "dispatch"
    /\ \E k \in DOMAIN results :
          /\ Quantified(k, CA_OPT_QUANTIFIER_ANY, TRUE)
          /\ options[results[k].opt].refs = <<"a", "b">>
          /\ ~Passed("a") /\ ~Passed("b")

\* every result that names an option names the option of result k
PassedAlone(k) ==
    \A n \in DOMAIN results :
        results[n].opt # 0 => results[n].opt = results[k].opt

\* C19: a passed option with a non-negated ONLY clause and empty refs
\* (behavior `<`) fails verification whenever another option is passed in
\* the same invocation, and passes it when it is the only option passed.
C19_OnlyEmptyRefs ==
    VerifyRan =>
        \A k \in DOMAIN results :
            ( /\ Quantified(k, CA_OPT_QUANTIFIER_ONLY, FALSE)
              /\ options[results[k].opt].refs = <<>>
              /\ Reached(k) )
            => (Succeeds(k) <=> PassedAlone(k))

\* result k names an option with a quantifier clause
HasClause(k) ==
    /\ results[k].opt # 0
    /\ options[results[k].opt].quantifier # CA_OPT_QUANTIFIER_NONE

\* C20 as stated: a passed option whose refs hold a character that names no
\* registered option makes ca_parse fail with a configuration error, wherever
\* the character stands and whichever options were passed.
C20_AsStated ==
    VerifyRan =>
        \A k \in DOMAIN results :
            (HasClause(k) /\ Reached(k) /\ \E c \in RefsOf(k) : ~Registered(c))
            => FailsWith(k, "config")

\* the loop over `refs` of a clause with quantifier q comes to a ref that
\* names no registered option: an ANY loop ends at the first ref that was
\* passed, an ALL loop at the first that was not, an ONLY loop reads them all
RECURSIVE ReachesUnknown(_, _)
ReachesUnknown(q, refs) ==
    IF refs = <<>> THEN FALSE
    ELSE IF ~Registered(Head(refs)) THEN TRUE
    ELSE IF q = CA_OPT_QUANTIFIER_ANY /\ Passed(Head(refs)) THEN FALSE
    ELSE IF q = CA_OPT_QUANTIFIER_ALL /\ ~Passed(Head(refs)) THEN FALSE
    ELSE ReachesUnknown(q, Tail(refs))

\* C20, amended: the verification of a passed option with a quantifier
\* clause fails with a configuration error exactly when the loop over its
\* refs comes to a character that names no registered option, negated or
\* not.  An ANY loop stops at the first passed ref and an ALL loop at the
\* first ref not passed, so an unknown character behind that ref goes
\* unnoticed; an ONLY loop reads every ref.
C20_UnknownRef ==
    VerifyRan =>
        \A k \in DOMAIN results :
            (HasClause(k) /\ Reached(k))
            => ( FailsWith(k, "config")
                 <=> ReachesUnknown(options[results[k].opt].quantifier,
                                    options[results[k].opt].refs) )

\* -O declared `@xa` was passed together with -a: configuration error
C20_Witness ==
    /\ pc = "done"
    /\ ret = 1
    /\ err = "config"
    /\ err_at # 0
    /\ HasClause(err_at)
    /\ options[results[err_at].opt].quantifier = CA_OPT_QUANTIFIER_ANY
    /\ options[results[err_at].opt].refs = <<"x", "a">>
    /\ Passed("a")

\* the sequences that list the elements of s in another order
Reorderings(s) ==
    { [k \in DOMAIN s |-> s[f[k]]] :
        f \in {g \in [DOMAIN s -> DOMAIN s] : \A m, n \in DOMAIN s :
                                                m # n => g[m] # g[n]} }

\* the registry with the refs of option k replaced by p
WithRefs(k, p) == [options EXCEPT ![k].refs = p]

\* C27: the verdict on a passed option with an ONLY clause is the same for
\* every order its refs are listed in.
C27_OnlyOrder ==
    VerifyRan =>
        \A k \in DOMAIN results :
            ( /\ results[k].opt # 0
              /\ options[results[k].opt].quantifier = CA_OPT_QUANTIFIER_ONLY )
            => \A p \in Reorderings(options[results[k].opt].refs) :
                  OptVerdict(WithRefs(results[k].opt, p), options_count, results[k].opt)
                  = OptVerdict(options, options_count, results[k].opt)

\* ca_parse has been entered and has read no token yet
AtStartOfScan == pc = "scan" /\ i = 1

\* C14: every call of ca_parse starts from reset transient state: was_passed
\* false on every option, options_count 0, no results.  So a later call on
\* the same registry and argument vector, also after a failed call, ends
\* with the result sequence, the was_passed flags, the options_count and the
\* return value the first call ended with.
C14_RepeatedParse ==
    /\ AtStartOfScan =>
          /\ \A k \in DOMAIN options : ~options[k].was_passed
          /\ options_count = 0
          /\ results = <<>>
    /\ (runs >= 2 /\ pc = "done") => RunOutcome = first_run

\* a second call has ended as the first, which had failed after two options
\* were passed
C14_Witness ==
    /\ runs = 2
    /\ pc = "done"
    /\ first_run.ret = 1
    /\ ret = 1
    /\ Len(results) >= 2
    /\ options_count >= 2
    /\ RunOutcome = first_run

---------------------------------------------------------------------------
(* SpecDispatch: a client with --help, --version and a plain option -a,    *)
(* which configures any of the two callbacks or none                       *)

DispatchProgram ==
    << {Decl("h", help, <<"<", "h">>, NULLP)},
       {Decl("v", version, <<>>, NULLP)},
       {Decl("a", aa, <<>>, NULLP)} >>

DispatchTokens == { <<"-", "h">>, Dashes(version), <<"-", "a">>, <<"x">> }

InitDispatch == InitWith(SeqsUpTo(DispatchTokens, MaxArgs))

NextDispatch ==
    \/ \E d \in NextDecls(DispatchProgram) : ca_opt(d)
    \/ \E opt_cb, arg_cb \in BOOLEAN : ca_set_callbacks(opt_cb, arg_cb)
    \/ ca_parse

SpecDispatch == InitDispatch /\ [][NextDispatch]_vars

\* the calls of a dispatch that skips the results whose callback is not
\* configured
RECURSIVE ConfiguredCalls(_)
ConfiguredCalls(res) ==
    IF res = <<>> THEN <<>>
    ELSE IF ThroughNull(CallFor(options, Head(res)), opt_callback, arg_callback)
    THEN ConfiguredCalls(Tail(res))
    ELSE <<CallFor(options, Head(res))>> \o ConfiguredCalls(Tail(res))

\* C3: when the option callback or the argument callback is NULL, the
\* results of that kind are not dispatched: no call goes through the missing
\* callback, and ca_parse returns success once scan and verification have
\* succeeded.
C3_MissingCallbackSkipped ==
    [][ pc = "dispatch" =>
          /\ pc' = "done"
          /\ ret' = 0
          /\ calls' = ConfiguredCalls(results) ]_vars

\* result k names an option whose long name is `help` or `version`
BuiltIn(k) ==
    /\ results[k].opt # 0
    /\ options[results[k].opt].long_opt \in {help, version}

\* the callback that result k is dispatched to is configured
CallbackSet(k) ==
    IF results[k].opt = 0 THEN arg_callback
    ELSE BuiltIn(k) \/ opt_callback

\* the dispatch the claim of C12 prescribes for result k
Dispatched(k) ==
    IF results[k].opt = 0
    THEN [fn |-> "arg_callback", arg |-> results[k].arg]
    ELSE IF options[results[k].opt].long_opt = help
    THEN [fn |-> "ca_print_help"]
    ELSE IF options[results[k].opt].long_opt = version
    THEN [fn |-> "ca_print_version"]
    ELSE [fn |-> "opt_callback",
          short_opt |-> options[results[k].opt].short_opt,
          long_opt |-> options[results[k].opt].long_opt,
          arg |-> results[k].arg]

\* C12: after a successful scan and verification, with the callbacks the
\* results go to configured, the dispatch loop makes exactly one call per
\* result, in the order of the results: the argument callback for a bare
\* positional result, the built-in renderer for a result naming --help or
\* --version, the option callback (short code, long name, argument) for any
\* other option result; ca_parse then returns 0.
C12_DispatchInScanOrder ==
    [][ (pc = "dispatch" /\ \A k \in DOMAIN results : CallbackSet(k))
        => /\ pc' = "done"
           /\ ret' = 0
           /\ calls' = [k \in DOMAIN results |-> Dispatched(k)] ]_vars

\* [--version, -a, x] was dispatched: the renderer, then the option
\* callback for -a, then the argument callback for x
C12_Witness ==
    /\ pc = "done"
    /\ ret = 0
    /\ argv = <<Dashes(version), <<"-", "a">>, <<"x">> >>
    /\ calls = << [fn |-> "ca_print_version"],
                  [fn |-> "opt_callback", short_opt |-> "a", long_opt |-> aa,
                   arg |-> NULL],
                  [fn |-> "arg_callback", arg |-> <<"x">>] >>

\* ca_parse has printed an error: the scan failed on a token, or the verdict
\* on a passed option was false or could not be taken
ParseFailed == err # ""

---------------------------------------------------------------------------
(* SpecBehavior: ca_opt on every behavior string of at most MaxBehLen of   *)
(* the characters below, for an option that is given a result variable     *)

MaxBehLen == 4

BehaviorChars == {".", "?", "*", " ", "\t", "!", "@", "&", "<", "a", "1", "#"}

BehaviorProgram ==
    << {Decl("O", opt, b, "expr_arg") : b \in SeqsUpTo(BehaviorChars, MaxBehLen)} >>

InitBehavior == InitWith({<<>>})

NextBehavior == \E d \in NextDecls(BehaviorProgram) : ca_opt(d)

SpecBehavior == InitBehavior /\ [][NextBehavior]_vars

\* The behavior grammar: an optional prefix `.`, `.?` or `*`; an optional
\* run of `?`, space and tab; then nothing, or an optional `!`, an
\* introducer `@`, `&` or `<` and refs that are letters and digits.
GrammarPrefixLen(b) ==
    IF At(b, 0) = "." THEN (IF At(b, 1) = "?" THEN 2 ELSE 1)
    ELSE IF At(b, 0) = "*" THEN 1
    ELSE 0

RECURSIVE GrammarSkip(_, _)
GrammarSkip(b, k) ==
    IF At(b, k) \in {"?", " ", "\t"} THEN GrammarSkip(b, k + 1) ELSE k

\* where the quantifier clause starts
GrammarClauseAt(b) == GrammarSkip(b, GrammarPrefixLen(b))

GrammarNegated(b) == At(b, GrammarClauseAt(b)) = "!"

\* where the introducer stands
GrammarIntroAt(b) ==
    IF GrammarNegated(b) THEN GrammarClauseAt(b) + 1 ELSE GrammarClauseAt(b)

GrammarHasClause(b) == GrammarClauseAt(b) < Len(b)

\* Read narrowly: a string that ends without a clause is counted valid only
\* when it is empty or just a prefix, not when skipped characters end it.
GrammarValid(b) ==
    IF GrammarHasClause(b)
    THEN /\ At(b, GrammarIntroAt(b)) \in {"@", "&", "<"}
         /\ \A c \in Range(Tail_(b, GrammarIntroAt(b) + 1)) : isalnum(c)
    ELSE Len(b) = GrammarPrefixLen(b)

\* the fields the grammar prescribes for a valid behavior string
GrammarFields(b) ==
    [takes_argument |-> At(b, 0) = ".",
     argument_optional |-> At(b, 0) = "." /\ At(b, 1) = "?",
     is_multiflag |-> At(b, 0) = "*",
     negated |-> GrammarHasClause(b) /\ GrammarNegated(b),
     quantifier |-> IF ~GrammarHasClause(b) THEN CA_OPT_QUANTIFIER_NONE
                    ELSE CASE At(b, GrammarIntroAt(b)) = "@" -> CA_OPT_QUANTIFIER_ANY
                           [] At(b, GrammarIntroAt(b)) = "&" -> CA_OPT_QUANTIFIER_ALL
                           [] OTHER -> CA_OPT_QUANTIFIER_ONLY,
     refs |-> IF ~GrammarHasClause(b) THEN <<>>
              ELSE Tail_(b, GrammarIntroAt(b) + 1)]

\* the same fields of a stored option
StoredFields(o) ==
    [takes_argument |-> CA_OPT_ARG \in o.flags,
     argument_optional |-> CA_OPT_OPTARG \in o.flags,
     is_multiflag |-> CA_OPT_MFLAG \in o.flags,
     negated |-> o.quantifier_is_negated,
     quantifier |-> o.quantifier,
     refs |-> o.refs]

\* C10: for every behavior string that is valid under the grammar, ca_opt
\* succeeds and the option it stores has takes_argument, argument_optional,
\* is_multiflag, quantifier, negated and refs as the grammar prescribes.
C10_GrammarRoundTrip ==
    (last_reg.n > 0 /\ GrammarValid(last_reg.decl.behavior))
    => /\ last_reg.ret = 0
       /\ options # <<>>
       /\ StoredFields(options[Len(options)]) = GrammarFields(last_reg.decl.behavior)

\* the behavior string of the last ca_opt call, and whether there was one
LastBehavior == last_reg.decl.behavior
Registering == last_reg.n > 0

\* the call registered the option
Registers == last_reg.ret = 0 /\ Len(options) = 1

\* C16: a behavior string that starts with `*` and continues with a valid
\* quantifier clause compiles: ca_opt succeeds and stores is_multiflag
\* together with the quantifier, negation and refs of the clause.
C16_MultiflagWithClause ==
    ( /\ Registering
      /\ At(LastBehavior, 0) = "*"
      /\ GrammarHasClause(LastBehavior)
      /\ GrammarValid(LastBehavior) )
    => /\ Registers
       /\ CA_OPT_MFLAG \in options[1].flags
       /\ options[1].quantifier = GrammarFields(LastBehavior).quantifier
       /\ options[1].quantifier_is_negated = GrammarFields(LastBehavior).negated
       /\ options[1].refs = GrammarFields(LastBehavior).refs

\* a character stands at the introducer position and is none of `@ & <`
BadIntroducer(b) ==
    /\ GrammarIntroAt(b) < Len(b)
    /\ At(b, GrammarIntroAt(b)) \notin {"@", "&", "<"}

\* a character that is no letter or digit stands after the introducer
BadRefs(b) ==
    /\ GrammarIntroAt(b) < Len(b)
    /\ At(b, GrammarIntroAt(b)) \in {"@", "&", "<"}
    /\ \E c \in Range(Tail_(b, GrammarIntroAt(b) + 1)) : ~isalnum(c)

\* C17: ca_opt fails for every behavior string whose character at the
\* introducer position (after the prefix, the skipped run and an optional
\* `!`) is present and is not `@`, `&` or `<`, and for every string with a
\* character after the introducer that is no letter or digit.
C17_BadClauseRejected ==
    (Registering /\ (BadIntroducer(LastBehavior) \/ BadRefs(LastBehavior)))
    => (last_reg.ret # 0 /\ options = <<>>)

\* C18: a behavior string that ends right after its introducer, whatever
\* prefix stands before it, compiles to the quantifier of that introducer
\* (never NONE) with empty refs.
C18_EmptyRefs ==
    ( /\ Registering
      /\ GrammarIntroAt(LastBehavior) = Len(LastBehavior) - 1
      /\ At(LastBehavior, 0) # "*"
      /\ GrammarValid(LastBehavior) )
    => /\ Registers
       /\ options[1].quantifier = QuantifierOf(At(LastBehavior, Len(LastBehavior) - 1))
       /\ options[1].quantifier # CA_OPT_QUANTIFIER_NONE
       /\ options[1].refs = <<>>

\* C24: every option of the registry, whatever behavior string it was
\* registered with, has at most one of takes_argument and is_multiflag set.
C24_ArgumentOrMultiflag ==
    \A k \in DOMAIN options :
        ~(CA_OPT_ARG \in options[k].flags /\ CA_OPT_MFLAG \in options[k].flags)

\* the behavior `.*` was registered: the option takes an argument and is not
\* multiflag
C24_Witness ==
    /\ Registering
    /\ LastBehavior = <<".", "*">>
    /\ Registers
    /\ options[1].flags = {CA_OPT_ARG}

---------------------------------------------------------------------------
(* SpecRegister: a client that makes four ca_opt calls, each with a valid   *)
(* declaration or with one that ca_opt refuses                             *)

\* declarations of option number n: two that register and one per way of
\* failing
RegisterDecls(c, long) ==
    { Decl(c, long, <<"*">>, NULLP),               \* registers
      Decl(c, long, <<".">>, "file_arg"),          \* registers
      Decl(c, long, <<".", "L", "O", "L">>, "file_arg"),  \* grammar violation
      Decl(c, long, <<"@", "a", "#">>, NULLP),     \* refs not alphanumeric
      Decl(c, NULL, <<"*">>, NULLP),               \* no long name
      Decl(c, long, NULL, NULLP),                  \* no behavior
      Decl("#", long, <<"*">>, NULLP),             \* short code not alphanumeric
      Decl(c, long, <<".">>, NULLP) }              \* argument without result

\* the second call may also repeat the long name of the first with another
\* short code
RegisterProgram ==
    << RegisterDecls("a", aa),
       RegisterDecls("b", bb) \cup {Decl("A", aa, <<".", "?">>, "expr_arg")},
       RegisterDecls("O", opt),
       RegisterDecls("v", version) >>

InitRegister == InitWith({<<>>})

NextRegister == \E d \in NextDecls(RegisterProgram) : ca_opt(d)

SpecRegister == InitRegister /\ [][NextRegister]_vars

\* the step is a ca_opt call that returned failure
RegistrationFails == last_reg'.n = last_reg.n + 1 /\ last_reg'.ret # 0

\* C11: a ca_opt call that fails, for whichever reason, leaves the registry
\* as it was: the same options in the same order.
C11_FailedRegistration ==
    [][ RegistrationFails => options' = options ]_vars

\* a call failed on a registry that already held an option, which it still
\* holds alone
C11_Witness ==
    /\ last_reg.n = 2
    /\ last_reg.ret # 0
    /\ last_reg.decl = Decl("b", bb, <<".">>, NULLP)
    /\ Len(options) = 1
    /\ options[1].short_opt = "a"

\* C23: after any sequence of ca_opt calls no two options of the registry
\* have the same long name: a call that repeats a registered long name adds
\* no second option.
C23_UniqueLongNames ==
    \A j, k \in DOMAIN options :
        j # k => options[j].long_opt # options[k].long_opt

---------------------------------------------------------------------------
(* SpecAttach: a client with a multiflag option -a, --file with a required *)
(* argument, --expr with an optional one and a plain option -p, scanning   *)
(* short tokens that carry further characters                              *)

plain == <<"p", "l", "a", "i", "n">>

AttachProgram ==
    << {Decl("a", aa, <<"*">>, NULLP)},
       {Decl("f", file, <<".">>, "file_arg")},
       {Decl("e", expr, <<".", "?">>, "expr_arg")},
       {Decl("p", plain, <<>>, NULLP)} >>

AttachTokens ==
    { <<"-", "f", "a", "p">>, <<"-", "f", "/", "x">>, <<"-", "e", "a">>,
      <<"-", "p", "a">>, <<"-", "a", "a">>, <<"-", "p">>, Dashes(file),
      <<"x">> }

InitAttach == InitWith(SeqsUpTo(AttachTokens, MaxArgs))

NextAttach ==
    \/ \E d \in NextDecls(AttachProgram) : ca_opt(d)
    \/ ca_set_callbacks(TRUE, TRUE)
    \/ ca_parse_once

SpecAttach == InitAttach /\ [][NextAttach]_vars

\* the step reads a short-option token -xREST, REST not empty, whose flag x
\* is registered and not multiflag, no required argument being awaited
ReadsAttached ==
    /\ ReadsToken
    /\ ~only_args_now
    /\ ~(last_opt # 0 /\ Required(last_opt))
    /\ Len(argv[i]) >= 3
    /\ argv[i][1] = "-"
    /\ argv[i][2] # "-"
    /\ Named(argv[i][2]) # 0
    /\ ~IsMultiflag(argv[i][2])

\* C21: such a token, when x accepts an argument, emits exactly one result
\* {x, REST} with REST taken verbatim, counts x as passed and leaves no
\* option pending; when x accepts no argument, the scan fails.
C21_AttachedArgument ==
    [][ ReadsAttached =>
          IF CA_OPT_ARG \in options[Named(argv[i][2])].flags
          THEN /\ results' = Append(results, ParseResult(Named(argv[i][2]),
                                                        Tail_(argv[i], 2)))
               /\ options'[Named(argv[i][2])].was_passed
               /\ options_count' = options_count + 1
               /\ last_opt' = 0
               /\ pc' = "scan"
          ELSE /\ ScanFailedWith("no_args")
               /\ results' = results ]_vars

\* [-fap] was scanned: one result, --file with the argument "ap", although a
\* and p are registered flags
C21_Witness ==
    /\ ScanSucceeded
    /\ argv = << <<"-", "f", "a", "p">> >>
    /\ Len(options) = 4
    /\ results = <<ParseResult(Named("f"), <<"a", "p">>)>>
    /\ options[Named("f")].was_passed
    /\ options_count = 1

\* the three shapes of a result
OptionWithArgument(r) == r.opt # 0 /\ r.arg # NULL
OptionAlone(r) == r.opt # 0 /\ r.arg = NULL
ArgumentAlone(r) == r.opt = 0 /\ r.arg # NULL

\* C25: in every state of a scan, and after it, each result of the result
\* sequence is {option, argument}, {option, none} or {none, argument}; a
\* result with neither is never emitted.  An option it names is an option of
\* the registry.
C25_ResultShapes ==
    \A k \in DOMAIN results :
        /\ OptionWithArgument(results[k]) \/ OptionAlone(results[k])
              \/ ArgumentAlone(results[k])
        /\ results[k].opt \in 0..Len(options)

\* [-fap, -aa, x] was scanned: a result of each shape
C25_Witness ==
    /\ ScanSucceeded
    /\ Len(results) = 4
    /\ OptionWithArgument(results[1])
    /\ OptionAlone(results[2])
    /\ OptionAlone(results[3])
    /\ ArgumentAlone(results[4])

---------------------------------------------------------------------------
(* SpecDynarr: an array made by ca_dynamic_new for pointers, results or    *)
(* options, and MaxPush calls of ca_dynamic_push on it                     *)

MaxPush == 40

ca_dynamic_push ==
    /\ dyn.state # "crashed"
    /\ dyn.len < MaxPush
    /\ dyn' \in ca_dynamic_push_call(dyn)
    /\ UNCHANGED <<argv, options, slot, use_end_of_options, opt_callback,
                   arg_callback, pc, i, only_args_now, last_opt, results,
                   options_count, ret, err, err_at, calls, last_reg, runs,
                   first_run>>

InitDynarr ==
    /\ argv = <<>>
    /\ options = <<>>
    /\ slot = InitSlot
    /\ use_end_of_options = TRUE
    /\ opt_callback = FALSE
    /\ arg_callback = FALSE
    /\ pc = "setup"
    /\ i = 1
    /\ only_args_now = FALSE
    /\ last_opt = 0
    /\ results = <<>>
    /\ options_count = 0
    /\ ret = NoRet
    /\ err = ""
    /\ err_at = 0
    /\ calls = <<>>
    /\ last_reg = [decl |-> NoDecl, ret |-> 0, n |-> 0]
    /\ runs = 0
    /\ first_run = [results |-> <<>>, was_passed |-> <<>>, options_count |-> 0,
                    ret |-> NoRet]
    /\ dyn \in {ca_dynamic_new(T) : T \in {SizeofPointer, SizeofResult, SizeofOpt}}

NextDynarr == ca_dynamic_push

SpecDynarr == InitDynarr /\ [][NextDynarr]_vars

\* C30: after any number of pushes on an array made by ca_dynamic_new, the
\* length is less than the capacity and the bytes allocated are at least
\* capacity times the element size, so every element pushed was stored
\* inside the allocation.
C30_PushStaysInside ==
    /\ dyn.len < dyn.cap
    /\ dyn.bytes >= dyn.cap * dyn.elem
    /\ dyn.state = "ok"

===========================================================================
